---- MODULE Spec2Model ----
(***************************************************************************)
(* Model of the spring_tool preset store (src/spring_tool/presets.py):     *)
(* a JSON document {character: {body_part: {field: value}}} kept in one    *)
(* file that every mutation loads whole and rewrites whole.                *)
(***************************************************************************)
EXTENDS Integers, Sequences, FiniteSets, TLC

(* ------------------------------ bounds -------------------------------- *)
\* Largest number of (character, body_part) records the file may hold.
MaxPresets == 2

(* --------------------------- value universe --------------------------- *)
\* Python values: every value is a record [k |-> kind, v |-> components].
None == [k |-> "None", v |-> <<>>]
ROTATION == [k |-> "rotation", v |-> <<>>]
TRANSLATION == [k |-> "translation", v |-> <<>>]
Float(n) == [k |-> "float", v |-> <<n>>]
PyList(x, y, z) == [k |-> "list", v |-> <<x, y, z>>]
PyTuple(x, y, z) == [k |-> "tuple", v |-> <<x, y, z>>]
\* [(x, y, z)]: a one-element list holding a 3-tuple.
PyListOfTuple(x, y, z) == [k |-> "list_of_tuple", v |-> <<x, y, z>>]

Chars == {"bob", "amy"}
BodyParts == {"arm", "Arm", "leg"}
EMPTY_LINE_TEXT == "----------"
\* Texts a user can type into the name dialog besides the names above.
InvalidNames == {"left arm"}
NoPath == ""
PresetsPath == "spring_tool_presets.json"

\* str.lower() on the names of the model.
Lower(s) == IF s = "Arm" THEN "arm" ELSE s

\* re.match("^[a-zA-Z0-9_]+$", text)
re_match(text) == text # "" /\ text \notin InvalidNames

\* Argument vectors save_preset is called with (spring_mode, spring,
\* spring_rigidity, decay, position); None means "not supplied".
MkArgs(m, s, r, d, p) ==
    [spring_mode |-> m, spring |-> s, spring_rigidity |-> r, decay |-> d, position |-> p]
ArgProfiles ==
    { MkArgs(ROTATION, Float(0), Float(1), Float(2), PyList(0, 0, 0)),
      MkArgs(TRANSLATION, Float(5), None, None, PyTuple(4, 5, 6)) }
NoArgs == MkArgs(None, None, None, None, None)

(* ------------------------------ dicts --------------------------------- *)
EmptyDict == [x \in {} |-> x]
DictSet(d, key, val) == [x \in (DOMAIN d) \cup {key} |-> IF x = key THEN val ELSE d[x]]
DictDel(d, key) == [x \in (DOMAIN d) \ {key} |-> d[x]]
\* dict.get(key) with the default None
DictGet(d, key) == IF key \in DOMAIN d THEN d[key] ELSE None

(* ------------------------------- JSON --------------------------------- *)
\* json.dump of one value: lists and tuples both become arrays.
json_encode(val) ==
    CASE val.k \in {"list", "tuple"} -> [k |-> "array", v |-> val.v]
      [] val.k = "None" -> [k |-> "null", v |-> <<>>]
      [] val.k = "float" -> [k |-> "number", v |-> val.v]
      [] OTHER -> val
\* json.load of one value: arrays come back as lists.
json_decode(val) ==
    CASE val.k = "array" -> [k |-> "list", v |-> val.v]
      [] val.k = "null" -> None
      [] val.k = "number" -> [k |-> "float", v |-> val.v]
      [] OTHER -> val
json_dump(presets) ==
    [c \in DOMAIN presets |->
        [b \in DOMAIN presets[c] |->
            [f \in DOMAIN presets[c][b] |-> json_encode(presets[c][b][f])]]]
json_load(data) ==
    [c \in DOMAIN data |->
        [b \in DOMAIN data[c] |->
            [f \in DOMAIN data[c][b] |-> json_decode(data[c][b][f])]]]

(* ------------------------------ state --------------------------------- *)
VARIABLES
    presets_file_path,  \* the path the window / the caller holds ("" = not set)
    file,               \* the preset file: [exists, data]
    before,             \* the preset file as it was before the last operation
    call,               \* the last operation and its arguments
    ret,                \* what the last operation returned or raised
    client,             \* two clients sharing the file: position, operation, loaded document
    last_writer,        \* the client whose write to the file happened last (0 = none)
    window,             \* the SpringToolWindow object: its fields and widget values
    maya,               \* the host: the setup nodes in the scene, the viewport
    trace,              \* what the last window handler did, in order
    admin               \* the SpringToolPresetAdmin object

vars == <<presets_file_path, file, before, call, ret, client, last_writer,
          window, maya, trace, admin>>

NoFile == [exists |-> FALSE, data |-> EmptyDict]
FileOf(presets) == [exists |-> TRUE, data |-> json_dump(presets)]

\* Number of (character, body_part) records in a document.
RECURSIVE CountPresets(_, _)
CountPresets(d, cs) ==
    IF cs = {} THEN 0
    ELSE LET c == CHOOSE x \in cs : TRUE
         IN Cardinality(DOMAIN d[c]) + CountPresets(d, cs \ {c})
NumPresets(f) == CountPresets(f.data, DOMAIN f.data)

\* No SpringToolWindow and no SpringToolPresetAdmin constructed yet, nothing
\* of the tool in the scene, the viewport shown.
NoWindow ==
    [open |-> FALSE, rig_ctl_list |-> [set |-> FALSE, v |-> <<>>],
     aim_loc |-> "None", axes |-> None, layer_names_list |-> <<>>,
     spring_value_spinbox |-> 0, rigidity_value_spinbox |-> 0,
     decay_value_spinbox |-> 0, rotation_mode_radio_button |-> FALSE,
     bake_on_layer_checkbox |-> FALSE, merge_animation_layer_checkbox |-> FALSE]
NoAdmin == [open |-> FALSE, authorized_access |-> FALSE]
EmptyScene == [scene |-> {}, viewport |-> TRUE]

(* ---------------------------- load_presets ---------------------------- *)
PyNoneDict == [none |-> TRUE, d |-> EmptyDict]
PyDict(d) == [none |-> FALSE, d |-> d]
\* Python truthiness of a value that is None or a dict.
Falsy(p) == p.none \/ DOMAIN p.d = {}

\* load_presets without the "except FileNotFoundError: return {}".
load_presets_strict(path, f) ==
    IF path = NoPath \/ ~f.exists THEN PyNoneDict
    ELSE PyDict(json_load(f.data))
load_presets(path, f) ==
    IF path = NoPath THEN PyNoneDict
    ELSE IF f.exists THEN PyDict(json_load(f.data))
    ELSE PyDict(EmptyDict)

(* --------------------------- read operations -------------------------- *)
\* A listing result: None, or the list of keys (order is not modelled).
NoListing == [none |-> TRUE, items |-> {}]
Listing(keys) == [none |-> FALSE, items |-> keys]

\* presets.get(character_name, {})
CharacterData(d, character_name) ==
    IF character_name \in DOMAIN d THEN d[character_name] ELSE EmptyDict

get_preset(path, f, character_name, body_part) ==
    LET presets == load_presets(path, f)
    IN IF Falsy(presets) THEN [none |-> TRUE, d |-> EmptyDict]
       ELSE LET cd == CharacterData(presets.d, character_name)
            IN IF body_part \in DOMAIN cd THEN [none |-> FALSE, d |-> cd[body_part]]
               ELSE [none |-> TRUE, d |-> EmptyDict]

get_available_characters(path, f) ==
    LET presets == load_presets(path, f)
    IN IF Falsy(presets) THEN NoListing
       ELSE Listing(DOMAIN presets.d)

get_available_body_parts(path, f, character_name) ==
    LET presets == load_presets(path, f)
    IN IF Falsy(presets) THEN NoListing
       ELSE Listing(DOMAIN CharacterData(presets.d, character_name))

None5 == <<None, None, None, None, None>>

\* [(pos_data[0], pos_data[1], pos_data[2])] if pos_data else None
WrapPositionFlat(pos_data) ==
    IF pos_data.k = "None" THEN None
    ELSE pos_data
WrapPosition(pos_data) ==
    IF pos_data.k = "None" THEN None
    ELSE PyListOfTuple(pos_data.v[1], pos_data.v[2], pos_data.v[3])

get_all_data(path, f, character_name, body_part) ==
    LET presets == load_presets(path, f)
    IN IF Falsy(presets) THEN None5
       ELSE IF character_name \notin DOMAIN presets.d
               \/ DOMAIN presets.d[character_name] = {} THEN None5
       ELSE IF body_part \notin DOMAIN presets.d[character_name]
               \/ DOMAIN presets.d[character_name][body_part] = {} THEN None5
       ELSE LET body_part_data == presets.d[character_name][body_part]
            IN << DictGet(body_part_data, "spring_mode"),
                  DictGet(body_part_data, "spring_value"),
                  DictGet(body_part_data, "spring_rigidity"),
                  DictGet(body_part_data, "decay"),
                  WrapPosition(DictGet(body_part_data, "position")) >>

(* ----------------------------- save_preset ---------------------------- *)
\* Result of a mutation that did not reach its write: the exception raised
\* ("" = none), the value returned, the file left as it was.
Result(raised, value, f) ==
    [raised |-> raised, value |-> value, file |-> f, wrote |-> FALSE]
\* Result of a mutation that rewrote the file with the dump of presets:
\* "with open(path, 'w') as f: json.dump(presets, f, indent=4)".
Written(value, presets) ==
    [raised |-> "", value |-> value, file |-> FileOf(presets), wrote |-> TRUE]

\* "if x is not None: preset[key] = x"
SetIfSuppliedAlways(preset, key, x) == DictSet(preset, key, x)
SetIfSupplied(preset, key, x) ==
    IF x.k # "None" THEN DictSet(preset, key, x) ELSE preset

update_values(preset, a) ==
    LET p1 == SetIfSupplied(preset, "spring_mode", a.spring_mode)
        p2 == SetIfSupplied(p1, "spring_value", a.spring)
        p3 == SetIfSupplied(p2, "spring_rigidity", a.spring_rigidity)
        p4 == SetIfSupplied(p3, "decay", a.decay)
    IN SetIfSupplied(p4, "position", a.position)

\* "body_part in presets[character_name] and not overwrite"
AlreadyExistsIgnored(cd, body_part, overwrite) == FALSE
AlreadyExists(cd, body_part, overwrite) ==
    body_part \in DOMAIN cd /\ ~overwrite

\* "presets[character_name] = {}" done for a stored character too.
NewCharacterAlways(d, character_name) == DictSet(d, character_name, EmptyDict)
\* "if character_name not in presets: presets[character_name] = {}"
NewCharacter(d, character_name) ==
    IF character_name \notin DOMAIN d THEN DictSet(d, character_name, EmptyDict)
    ELSE d

save_preset(path, f, character_name, body_part, a, overwrite) ==
    LET presets == load_presets(path, f)
    IN IF presets.none THEN Result("TypeError", "None", f)
       ELSE LET d1 == NewCharacter(presets.d, character_name)
            IN IF AlreadyExists(d1[character_name], body_part, overwrite)
               THEN Result("ValueError", "None", f)
               ELSE LET old == IF body_part \in DOMAIN d1[character_name]
                               THEN d1[character_name][body_part]
                               ELSE EmptyDict
                        preset == update_values(old, a)
                        d2 == DictSet(d1, character_name,
                                      DictSet(d1[character_name], body_part, preset))
                    IN Written("None", d2)

(* ---------------------------- remove_preset --------------------------- *)
\* Stands for Python's None where a name is expected.
NoneName == "<None>"

\* "del presets[character_name]" of a call with body_part None
DelCharacterParts(d, character_name) == DictSet(d, character_name, EmptyDict)
DelCharacter(d, character_name) == DictDel(d, character_name)

\* "if not presets[character_name]: del presets[character_name]"
PruneNever(d, character_name) == d
Prune(d, character_name) ==
    IF DOMAIN d[character_name] = {} THEN DictDel(d, character_name) ELSE d

\* remove_preset without the "else: return False" of a missing body part.
remove_preset_unchecked(path, f, character_name, body_part) ==
    LET presets == load_presets(path, f)
    IN IF Falsy(presets) \/ character_name \notin DOMAIN presets.d
       THEN Result("", "False", f)
       ELSE IF body_part = NoneName
       THEN Written("True", DelCharacter(presets.d, character_name))
       ELSE LET d1 == DictSet(presets.d, character_name,
                              DictDel(presets.d[character_name], body_part))
            IN Written("True", Prune(d1, character_name))

remove_preset(path, f, character_name, body_part) ==
    LET presets == load_presets(path, f)
    IN IF Falsy(presets) \/ character_name \notin DOMAIN presets.d
       THEN Result("", "False", f)
       ELSE IF body_part = NoneName
       THEN Written("True", DelCharacter(presets.d, character_name))
       ELSE IF body_part \in DOMAIN presets.d[character_name]
       THEN LET d1 == DictSet(presets.d, character_name,
                              DictDel(presets.d[character_name], body_part))
            IN Written("True", Prune(d1, character_name))
       ELSE Result("", "False", f)

(* ------------------------------ rename -------------------------------- *)
\* json_data[new_key] = json_data.pop(old_key)
PopInsertKeepOld(d, old_key, new_key) == DictSet(d, new_key, d[old_key])
PopInsert(d, old_key, new_key) == DictSet(DictDel(d, old_key), new_key, d[old_key])

\* rename_key without the "if old_key in ..." guards, popping with a default.
rename_key_unguarded(json_data, old_key, new_key, parent_text) ==
    IF parent_text = NoneName
    THEN DictSet(DictDel(json_data, old_key), new_key,
                 CharacterData(json_data, old_key))
    ELSE IF parent_text \in DOMAIN json_data
         THEN DictSet(json_data, parent_text,
                      DictSet(DictDel(json_data[parent_text], old_key), new_key,
                              CharacterData(json_data[parent_text], old_key)))
         ELSE json_data

rename_key(json_data, old_key, new_key, parent_text) ==
    IF parent_text = NoneName
    THEN IF old_key \in DOMAIN json_data
         THEN PopInsert(json_data, old_key, new_key)
         ELSE json_data
    ELSE IF parent_text \in DOMAIN json_data
            /\ old_key \in DOMAIN json_data[parent_text]
         THEN DictSet(json_data, parent_text,
                      PopInsert(json_data[parent_text], old_key, new_key))
         ELSE json_data

\* The name typed into the dialog, or "" for the None it returns.
name_input_dialog(existing_names, ok, text) ==
    IF ok /\ text # ""
    THEN IF ~re_match(text) THEN ""
         ELSE IF existing_names.none \/ existing_names.items = {} THEN text
         ELSE IF Lower(text) \in {Lower(name) : name \in existing_names.items} THEN ""
         ELSE text
    ELSE ""

\* rename_preset up to the dialog: the names already taken are listed from
\* the file, the dialog returns the new name or None ("").
rename_new_name(path, f, parent_text, ok, text) ==
    LET saved_preset_list ==
            IF parent_text = NoneName
            THEN get_available_characters(path, f)
            ELSE get_available_body_parts(path, f, parent_text)
    IN name_input_dialog(saved_preset_list, ok, text)

\* rename_preset after the dialog: read the file, rename, write it back.
rename_write(path, f, parent_text, item_text, new_preset_name) ==
    IF path = NoPath \/ ~f.exists THEN Result("FileNotFoundError", "None", f)
    ELSE Written("None", rename_key(json_load(f.data), item_text,
                                    new_preset_name, parent_text))

rename_preset(path, f, parent_text, item_text, ok, text) ==
    LET new_preset_name == rename_new_name(path, f, parent_text, ok, text)
    IN IF new_preset_name = "" THEN Result("", "None", f)
       ELSE rename_write(path, f, parent_text, item_text, new_preset_name)

(* ------------------------------ actions ------------------------------- *)
Call(op, c, b, a, flag, text) ==
    [op |-> op, c |-> c, b |-> b, args |-> a, flag |-> flag, text |-> text]
NoCall == Call("init", "", "", NoArgs, FALSE, "")
Ret(r) == [raised |-> r.raised, value |-> r.value, wrote |-> r.wrote]

Clients == {1, 2}
Idle == [pc |-> "idle", op |-> NoCall, loaded |-> NoFile, new_name |-> "", wrote |-> FALSE]

Init ==
    /\ presets_file_path \in {NoPath, PresetsPath}
    /\ file \in {NoFile} \cup
                (IF presets_file_path = NoPath THEN {} ELSE {FileOf(EmptyDict)})
    /\ before = file
    /\ call = NoCall
    /\ ret = [raised |-> "", value |-> "None", wrote |-> FALSE]
    /\ client = [i \in Clients |-> Idle]
    /\ last_writer = 0
    /\ window = NoWindow
    /\ maya = EmptyScene
    /\ trace = <<>>
    /\ admin = NoAdmin

\* One operation run from start to end on the file.
Run(op, r) ==
    /\ before' = file
    /\ file' = r.file
    /\ call' = op
    /\ ret' = Ret(r)
    /\ UNCHANGED <<presets_file_path, client, last_writer, window, maya, trace, admin>>

\* A direct call of save_preset(path, character_name, body_part, ...).
SavePreset(c, b, a, overwrite) ==
    LET r == save_preset(presets_file_path, file, c, b, a, overwrite)
    IN /\ NumPresets(r.file) <= MaxPresets
       /\ Run(Call("save_preset", c, b, a, overwrite, ""), r)

\* The spin boxes of the popup always supply the five values, the position
\* as the list [x, y, z].
PopupArgs ==
    { a \in ArgProfiles :
        /\ a.spring_mode.k # "None" /\ a.spring.k # "None"
        /\ a.spring_rigidity.k # "None" /\ a.decay.k # "None"
        /\ a.position.k = "list" }

\* SavePresetPopup.save_preset_pressed: the Confirm button of the popup.
save_preset_pressed(path, f, character_name, body_part, a, edit_mode) ==
    IF character_name = EMPTY_LINE_TEXT THEN Result("", "None", f)
    ELSE LET saved_names == get_available_body_parts(path, f, character_name)
         IN IF /\ ~saved_names.none /\ saved_names.items # {} /\ ~edit_mode
               /\ Lower(body_part) \in {Lower(name) : name \in saved_names.items}
            THEN Result("", "None", f)
            ELSE save_preset(path, f, character_name, body_part, a, edit_mode)

SavePresetPressed(c, b, a, edit_mode) ==
    LET r == save_preset_pressed(presets_file_path, file, c, b, a, edit_mode)
    IN /\ presets_file_path # NoPath
       /\ NumPresets(r.file) <= MaxPresets
       /\ Run(Call("save_preset_pressed", c, b, a, edit_mode, ""), r)

RemovePreset(c, b) ==
    LET r == remove_preset(presets_file_path, file, c, b)
    IN /\ NumPresets(r.file) <= MaxPresets
       /\ Run(Call("remove_preset", c, b, NoArgs, FALSE, ""), r)

\* Renaming the tree item item_text (under parent_text) with the dialog
\* answered by (ok, text).
RenamePreset(parent_text, item_text, ok, text) ==
    LET r == rename_preset(presets_file_path, file, parent_text, item_text, ok, text)
    IN /\ NumPresets(r.file) <= MaxPresets
       /\ Run(Call("rename_preset", parent_text, item_text, NoArgs, ok, text), r)

\* What the user can do in the name dialog when renaming an item of the tree
\* view, a character (no parent) or a body part (under its character):
\* cancel, or press OK on a text.
DialogInputs(parent_text) ==
    {[ok |-> FALSE, text |-> ""]} \cup
    {[ok |-> TRUE, text |-> t] :
        t \in (IF parent_text = NoneName THEN Chars ELSE BodyParts)
               \cup InvalidNames \cup {""}}
TreeItems(parent_text) ==
    IF parent_text = NoneName THEN Chars ELSE BodyParts

Next ==
    \/ \E c \in Chars, b \in BodyParts, a \in ArgProfiles, overwrite \in BOOLEAN :
            SavePreset(c, b, a, overwrite)
    \/ \E c \in Chars \cup {EMPTY_LINE_TEXT}, b \in BodyParts, a \in PopupArgs,
          edit_mode \in BOOLEAN :
            SavePresetPressed(c, b, a, edit_mode)
    \/ \E c \in Chars, b \in BodyParts \cup {NoneName} : RemovePreset(c, b)
    \/ \E parent_text \in Chars \cup {NoneName} :
          \E item_text \in TreeItems(parent_text), in \in DialogInputs(parent_text) :
            RenamePreset(parent_text, item_text, in.ok, in.text)

Spec == Init /\ [][Next]_vars

TypeOK ==
    /\ presets_file_path \in {NoPath, PresetsPath}
    /\ file.exists \in BOOLEAN
    /\ NumPresets(file) <= MaxPresets

(* ------------------------- helpers of the claims ---------------------- *)
Stored(f, c, b) == f.exists /\ c \in DOMAIN f.data /\ b \in DOMAIN f.data[c]
\* The record of (c, b) as load_presets returns it.
RecordOf(f, c, b) == json_load(f.data)[c][b]
Supplied(x) == x.k # "None"
FieldKeys == {"spring_mode", "spring_value", "spring_rigidity", "decay", "position"}
ArgOf(a, key) ==
    CASE key = "spring_mode" -> a.spring_mode
      [] key = "spring_value" -> a.spring
      [] key = "spring_rigidity" -> a.spring_rigidity
      [] key = "decay" -> a.decay
      [] key = "position" -> a.position
\* The keys at the level a rename works on.
KeysAt(d, parent_text) ==
    IF parent_text = NoneName THEN DOMAIN d
    ELSE IF parent_text \in DOMAIN d THEN DOMAIN d[parent_text] ELSE {}
SavedOK == call.op = "save_preset" /\ ret.raised = ""
ReadBack == get_all_data(presets_file_path, file, call.c, call.b)
ReadBefore == get_all_data(presets_file_path, before, call.c, call.b)

(* -------------------------------- C1 ---------------------------------- *)
\* C1 as stated: after a save_preset that returned, get_all_data with the
\* same path, character_name and body_part returns exactly the five values
\* passed to save_preset.
C1_RoundTripExact ==
    SavedOK =>
        ReadBack = << call.args.spring_mode, call.args.spring,
                      call.args.spring_rigidity, call.args.decay,
                      call.args.position >>

\* C1 amended: after a save_preset that returned, get_all_data returns each
\* supplied scalar (spring_mode, spring_value, spring_rigidity, decay) exactly
\* as written and a supplied position [x, y, z] as the one-element list
\* [(x, y, z)]; a value that was not supplied (None) reads back as it did
\* before the save.
C1_RoundTrip ==
    SavedOK =>
        ReadBack =
            << IF Supplied(call.args.spring_mode) THEN call.args.spring_mode
               ELSE ReadBefore[1],
               IF Supplied(call.args.spring) THEN call.args.spring
               ELSE ReadBefore[2],
               IF Supplied(call.args.spring_rigidity) THEN call.args.spring_rigidity
               ELSE ReadBefore[3],
               IF Supplied(call.args.decay) THEN call.args.decay
               ELSE ReadBefore[4],
               IF Supplied(call.args.position)
               THEN PyListOfTuple(call.args.position.v[1], call.args.position.v[2],
                                  call.args.position.v[3])
               ELSE ReadBefore[5] >>

C1_Witness ==
    /\ SavedOK
    /\ call.args.position = PyList(0, 0, 0)
    /\ ReadBack[5] = PyListOfTuple(0, 0, 0)
    /\ ReadBack[2] = Float(0)

(* -------------------------------- C2 ---------------------------------- *)
\* C2: save_preset with overwrite False for a (character_name, body_part)
\* that is already stored raises the 'already exists' ValueError and leaves
\* the file as it was, whatever values are supplied.
C2_DuplicateRejected ==
    (call.op = "save_preset" /\ ~call.flag /\ Stored(before, call.c, call.b)) =>
        /\ ret.raised = "ValueError"
        /\ ~ret.wrote
        /\ file = before

C2_Witness ==
    /\ call.op = "save_preset" /\ ~call.flag
    /\ Stored(before, call.c, call.b)
    /\ ret.raised = "ValueError"
    /\ RecordOf(file, call.c, call.b)["spring_value"] # call.args.spring

(* -------------------------------- C3 ---------------------------------- *)
\* C3: save_preset with overwrite True on a stored record sets exactly the
\* fields whose argument is not None and leaves every other field of the
\* record as it was (present with its old value, or still missing).
C3_OverwriteFrame ==
    (call.op = "save_preset" /\ call.flag /\ Stored(before, call.c, call.b)) =>
        /\ ret.raised = ""
        /\ Stored(file, call.c, call.b)
        /\ LET old == RecordOf(before, call.c, call.b)
               new == RecordOf(file, call.c, call.b)
           IN \A key \in FieldKeys :
                LET x == ArgOf(call.args, key)
                IN IF Supplied(x)
                   THEN /\ key \in DOMAIN new
                        /\ new[key].v = x.v
                        /\ new[key].k = (IF x.k = "tuple" THEN "list" ELSE x.k)
                   ELSE /\ (key \in DOMAIN new) <=> (key \in DOMAIN old)
                        /\ key \in DOMAIN old => new[key] = old[key]

C3_Witness ==
    /\ call.op = "save_preset" /\ call.flag /\ ret.raised = ""
    /\ Stored(before, call.c, call.b)
    /\ ~Supplied(call.args.decay)
    /\ "decay" \in DOMAIN RecordOf(before, call.c, call.b)
    /\ RecordOf(file, call.c, call.b)["decay"] = Float(2)
    /\ RecordOf(before, call.c, call.b)["spring_value"] = Float(0)
    /\ RecordOf(file, call.c, call.b)["spring_value"] = Float(5)

(* -------------------------------- C4 ---------------------------------- *)
\* C4: remove_preset of a stored body_part removes the character key too
\* when it was the character's only body_part; otherwise the character stays
\* with exactly the remaining body_parts, unchanged.
C4_RemovePrunes ==
    (call.op = "remove_preset" /\ call.b # NoneName
        /\ Stored(before, call.c, call.b)) =>
        /\ ret.value = "True"
        /\ IF DOMAIN before.data[call.c] = {call.b}
           THEN call.c \notin DOMAIN file.data
           ELSE /\ call.c \in DOMAIN file.data
                /\ DOMAIN file.data[call.c] = DOMAIN before.data[call.c] \ {call.b}
                /\ \A x \in DOMAIN file.data[call.c] :
                        file.data[call.c][x] = before.data[call.c][x]

C4_Witness ==
    /\ call.op = "remove_preset" /\ call.b # NoneName
    /\ Stored(before, call.c, call.b)
    /\ DOMAIN before.data[call.c] = {call.b}
    /\ call.c \notin DOMAIN file.data
    /\ DOMAIN file.data # {}

(* -------------------------------- C5 ---------------------------------- *)
\* C5: remove_preset with a character_name that is not stored, or with a
\* body_part that is not stored under a stored character, returns False and
\* the file is the same before and after.
C5_RemoveAbsent ==
    (call.op = "remove_preset"
        /\ \/ ~before.exists
           \/ call.c \notin DOMAIN before.data
           \/ (call.b # NoneName /\ call.b \notin DOMAIN before.data[call.c])) =>
        /\ ret.value = "False"
        /\ ret.raised = ""
        /\ ~ret.wrote
        /\ file = before

C5_Witness ==
    /\ call.op = "remove_preset"
    /\ before.exists
    /\ call.c \in DOMAIN before.data
    /\ call.b # NoneName /\ call.b \notin DOMAIN before.data[call.c]
    /\ ret.value = "False"
    /\ file = before

(* -------------------------------- C6 ---------------------------------- *)
\* What C6 asks of r = rename_key(d, old_key, new_key, parent_text) when
\* old_key is a key at the level named by parent_text: new_key holds the
\* value old_key held, old_key is gone from that level, and the entries of
\* the other level are as they were.
RenameKeeps(d, old_key, new_key, parent_text) ==
    LET r == rename_key(d, old_key, new_key, parent_text)
    IN IF parent_text = NoneName
       THEN /\ new_key \in DOMAIN r
            /\ r[new_key] = d[old_key]
            /\ old_key \notin DOMAIN r
            /\ \A c \in DOMAIN d \ {old_key} : c \in DOMAIN r /\ r[c] = d[c]
       ELSE /\ new_key \in DOMAIN r[parent_text]
            /\ r[parent_text][new_key] = d[parent_text][old_key]
            /\ old_key \notin DOMAIN r[parent_text]
            /\ DOMAIN r = DOMAIN d
            /\ \A c \in DOMAIN d \ {parent_text} : r[c] = d[c]

\* C6 as stated: for every document the store can hold and every old_key
\* present at the level, whatever new_key is, rename_key keeps the value
\* under new_key, removes old_key from that level and touches no entry of
\* the other level.
C6_RenameAnyKey ==
    LET d == json_load(file.data)
    IN \A parent_text \in Chars \cup {NoneName} :
         \A old_key \in KeysAt(d, parent_text) :
           \A new_key \in (IF parent_text = NoneName THEN Chars ELSE BodyParts) :
              RenameKeeps(d, old_key, new_key, parent_text)

\* C6 amended: the same, provided new_key is not already a key at that
\* level (so it differs from old_key); and a rename_preset that wrote the
\* file left exactly that result in it.
C6_RenameFreshKey ==
    /\ LET d == json_load(file.data)
       IN \A parent_text \in Chars \cup {NoneName} :
            \A old_key \in KeysAt(d, parent_text) :
              \A new_key \in (IF parent_text = NoneName THEN Chars ELSE BodyParts)
                                \ KeysAt(d, parent_text) :
                 RenameKeeps(d, old_key, new_key, parent_text)
    /\ (call.op = "rename_preset" /\ ret.wrote
            /\ call.b \in KeysAt(json_load(before.data), call.c)) =>
          LET d == json_load(before.data)
              r == json_load(file.data)
          IN /\ call.text \in KeysAt(r, call.c)
             /\ call.b \notin KeysAt(r, call.c)
             /\ IF call.c = NoneName
                THEN /\ r[call.text] = d[call.b]
                     /\ \A c \in DOMAIN d \ {call.b} : c \in DOMAIN r /\ r[c] = d[c]
                ELSE /\ r[call.c][call.text] = d[call.c][call.b]
                     /\ DOMAIN r = DOMAIN d
                     /\ \A c \in DOMAIN d \ {call.c} : r[c] = d[c]

C6_Witness ==
    /\ call.op = "rename_preset" /\ ret.wrote
    /\ call.c # NoneName
    /\ Stored(before, call.c, call.b)
    /\ Stored(file, call.c, call.text)
    /\ ~Stored(file, call.c, call.b)
    /\ file.data[call.c][call.text] = before.data[call.c][call.b]
    /\ Cardinality(DOMAIN file.data) = 2

(* -------------------------------- C7 ---------------------------------- *)
\* C7: get_available_characters and get_available_body_parts return None
\* when the store is absent (no path, or no file) and an empty listing, not
\* None, when the file is there and holds no presets.
C7_AbsentVsEmpty ==
    LET chars == get_available_characters(presets_file_path, file)
    IN /\ (presets_file_path = NoPath \/ ~file.exists) =>
            /\ chars.none
            /\ \A c \in Chars :
                 get_available_body_parts(presets_file_path, file, c).none
       /\ (presets_file_path # NoPath /\ file.exists /\ DOMAIN file.data = {}) =>
            /\ chars = Listing({})
            /\ \A c \in Chars :
                 get_available_body_parts(presets_file_path, file, c) = Listing({})

(* -------------------------------- C8 ---------------------------------- *)
\* Preset creations only: save_preset with overwrite False and the Confirm
\* button of a popup that is not in edit mode.
NextCreate ==
    \/ \E c \in Chars, b \in BodyParts, a \in ArgProfiles :
            SavePreset(c, b, a, FALSE)
    \/ \E c \in Chars \cup {EMPTY_LINE_TEXT}, b \in BodyParts, a \in PopupArgs :
            SavePresetPressed(c, b, a, FALSE)

SpecCreate == Init /\ [][NextCreate]_vars

\* C8: after any sequence of creations without the overwrite flag, no
\* character holds two body_part names that are equal ignoring case.
C8_CaseInsensitiveUnique ==
    \A c \in DOMAIN file.data :
        \A b1, b2 \in DOMAIN file.data[c] :
            Lower(b1) = Lower(b2) => b1 = b2

(* -------------------------------- C9 ---------------------------------- *)
AbsentEdit ==
    call.op = "save_preset" /\ call.flag /\ ~Stored(before, call.c, call.b)
\* A rename that got a new name from the dialog for a target that is absent.
AbsentRename ==
    /\ call.op = "rename_preset"
    /\ call.b \notin KeysAt(json_load(before.data), call.c)
    /\ rename_new_name(presets_file_path, before, call.c, call.flag, call.text) # ""
FailureSignalled == ret.raised # "" \/ ret.value = "False"

\* C9 as stated: an edit (save_preset with overwrite True) or a rename whose
\* target key is absent signals a failure and creates or changes no record.
C9_AbsentTargetFails ==
    (AbsentEdit \/ AbsentRename) => (FailureSignalled /\ file = before)

\* C9 amended: with the path set, save_preset with overwrite True on an
\* absent (character_name, body_part) returns normally and creates the record
\* with exactly the supplied fields; rename_key with an absent old_key returns
\* the document unchanged, and rename_preset on an existing file with an
\* absent target returns None without raising and leaves every record as it
\* was.
C9_AbsentTargetUpsert ==
    /\ (AbsentEdit /\ presets_file_path # NoPath) =>
          /\ ret.raised = ""
          /\ Stored(file, call.c, call.b)
          /\ DOMAIN RecordOf(file, call.c, call.b) =
                {key \in FieldKeys : Supplied(ArgOf(call.args, key))}
    /\ (AbsentRename /\ before.exists) =>
          /\ ret.raised = "" /\ ret.value = "None"
          /\ file = before
    /\ LET d == json_load(file.data)
       IN \A parent_text \in Chars \cup {NoneName} :
            \A old_key \in (IF parent_text = NoneName THEN Chars ELSE BodyParts)
                              \ KeysAt(d, parent_text) :
              \A new_key \in (IF parent_text = NoneName THEN Chars ELSE BodyParts) :
                 rename_key(d, old_key, new_key, parent_text) = d

C9_Witness ==
    /\ AbsentEdit
    /\ ret.raised = ""
    /\ before.exists /\ DOMAIN before.data # {}
    /\ Stored(file, call.c, call.b)
    /\ DOMAIN RecordOf(file, call.c, call.b) = {"spring_mode", "spring_value", "position"}

(* -------------------------------- C11 --------------------------------- *)
\* The four read operations on the file f, for every name of the model.
ReadsOf(path, f) ==
    [c \in Chars, b \in BodyParts |->
        << get_preset(path, f, c, b), get_all_data(path, f, c, b),
           get_available_characters(path, f),
           get_available_body_parts(path, f, c) >>]

\* C11: with a path set and no file at it, load_presets returns the empty
\* mapping (not None, nothing raised), the four read operations return what
\* they return for a file holding the empty document, and a save_preset
\* made in that state returns normally and leaves a file whose only record
\* is the new preset.
C11_MissingIsEmpty ==
    /\ (presets_file_path # NoPath /\ ~file.exists) =>
          /\ load_presets(presets_file_path, file) = PyDict(EmptyDict)
          /\ ReadsOf(presets_file_path, file) =
                ReadsOf(presets_file_path, FileOf(EmptyDict))
    /\ (call.op = "save_preset" /\ presets_file_path # NoPath
            /\ ~before.exists) =>
          /\ ret.raised = ""
          /\ file.exists
          /\ DOMAIN file.data = {call.c}
          /\ DOMAIN file.data[call.c] = {call.b}
          /\ DOMAIN RecordOf(file, call.c, call.b) =
                {key \in FieldKeys : Supplied(ArgOf(call.args, key))}

C11_Witness ==
    /\ call.op = "save_preset" /\ presets_file_path # NoPath
    /\ ~before.exists
    /\ ReadsOf(presets_file_path, before) =
          ReadsOf(presets_file_path, FileOf(EmptyDict))
    /\ NumPresets(file) = 1
    /\ Stored(file, call.c, call.b)

(* -------------------------------- C13 --------------------------------- *)
\* C13: remove_preset with body_part None on a stored character removes the
\* character key (and with it all its body parts) and leaves the other
\* characters as they were; and any remove_preset returns True when the
\* file differs from the file before the call and False when it is the same.
C13_RemoveCharacter ==
    /\ (call.op = "remove_preset" /\ call.b = NoneName
            /\ before.exists /\ call.c \in DOMAIN before.data) =>
          /\ call.c \notin DOMAIN file.data
          /\ DOMAIN file.data = DOMAIN before.data \ {call.c}
          /\ \A c \in DOMAIN file.data : file.data[c] = before.data[c]
    /\ call.op = "remove_preset" =>
          /\ ret.raised = ""
          /\ ret.value \in {"True", "False"}
          /\ (ret.value = "True") <=> (file # before)
          /\ (ret.value = "True") <=> ret.wrote

\* A character with two body parts is removed whole; another one stays.
C13_Witness ==
    /\ call.op = "remove_preset" /\ call.b = NoneName
    /\ before.exists /\ call.c \in DOMAIN before.data
    /\ Cardinality(DOMAIN before.data[call.c]) = 2
    /\ ret.value = "True"
    /\ call.c \notin DOMAIN file.data

(* ------------------------- two concurrent clients --------------------- *)
\* Each client runs one mutation on the shared file. A mutation is not
\* atomic: it loads the whole document, works on its own copy, and later
\* rewrites the whole file from that copy. The rewrite itself is one step.
FullArgs == MkArgs(ROTATION, Float(0), Float(1), Float(2), PyList(0, 0, 0))
ConcOps ==
    { Call("save_preset", "bob", "arm", FullArgs, FALSE, ""),
      Call("save_preset", "bob", "leg", FullArgs, TRUE, ""),
      Call("remove_preset", "bob", "arm", NoArgs, FALSE, ""),
      Call("rename_preset", NoneName, "bob", NoArgs, TRUE, "amy") }

ConcInit ==
    /\ presets_file_path = PresetsPath
    /\ file \in { NoFile, FileOf(EmptyDict),
                  save_preset(PresetsPath, NoFile, "bob", "arm", FullArgs, FALSE).file }
    /\ before = file
    /\ call = NoCall
    /\ ret = [raised |-> "", value |-> "None", wrote |-> FALSE]
    /\ client = [i \in Clients |-> Idle]
    /\ last_writer = 0
    /\ window = NoWindow
    /\ maya = EmptyScene
    /\ trace = <<>>
    /\ admin = NoAdmin

\* The document a mutation computes its write from: the one it loaded.
PresetsOfWriterReloaded(loaded, current) == current
PresetsOfWriter(loaded, current) == loaded

\* What the mutation op does from its load to its write, on the document f.
Mutate(op, path, f, new_name) ==
    CASE op.op = "save_preset" ->
            save_preset(path, f, op.c, op.b, op.args, op.flag)
      [] op.op = "remove_preset" -> remove_preset(path, f, op.c, op.b)
      [] op.op = "rename_preset" -> rename_write(path, f, op.c, op.b, new_name)

\* A client starts a mutation. save_preset and remove_preset begin with
\* load_presets; rename_preset begins with listing the names and the dialog,
\* and returns at once when the dialog gives no name.
ConcStart(i, op) ==
    /\ client[i].pc = "idle"
    /\ client' = [client EXCEPT ![i] =
          IF op.op = "rename_preset"
          THEN LET new_name == rename_new_name(presets_file_path, file,
                                               op.c, op.flag, op.text)
               IN [@ EXCEPT !.op = op, !.new_name = new_name,
                            !.pc = IF new_name = "" THEN "done" ELSE "named"]
          ELSE [@ EXCEPT !.op = op, !.loaded = file, !.pc = "loaded"]]
    /\ UNCHANGED <<presets_file_path, file, before, call, ret, last_writer,
                   window, maya, trace, admin>>

\* rename_preset reads the file again after the dialog (json.load).
ConcLoad(i) ==
    /\ client[i].pc = "named"
    /\ client' = [client EXCEPT ![i] =
          IF file.exists THEN [@ EXCEPT !.loaded = file, !.pc = "loaded"]
          ELSE [@ EXCEPT !.pc = "done"]]
    /\ UNCHANGED <<presets_file_path, file, before, call, ret, last_writer,
                   window, maya, trace, admin>>

\* The client finishes: it raises or returns without writing, or rewrites
\* the whole file from the document it works on.
ConcWrite(i) ==
    LET r == Mutate(client[i].op, presets_file_path,
                    PresetsOfWriter(client[i].loaded, file), client[i].new_name)
    IN /\ client[i].pc = "loaded"
       /\ client' = [client EXCEPT ![i].pc = "done", ![i].wrote = r.wrote]
       /\ file' = IF r.wrote THEN r.file ELSE file
       /\ last_writer' = IF r.wrote THEN i ELSE last_writer
       /\ UNCHANGED <<presets_file_path, before, call, ret, window, maya, trace, admin>>

NextConc ==
    \/ \E i \in Clients, op \in ConcOps : ConcStart(i, op)
    \/ \E i \in Clients : ConcLoad(i)
    \/ \E i \in Clients : ConcWrite(i)

SpecConc == ConcInit /\ [][NextConc]_vars

(* -------------------------------- C10 --------------------------------- *)
AllDone == \A i \in Clients : client[i].pc = "done"
\* The document client i writes, computed from its own load.
WrittenBy(i) ==
    Mutate(client[i].op, presets_file_path, client[i].loaded, client[i].new_name).file

\* C10: when both clients have finished, the file is exactly the document
\* written by the client whose write happened last, computed from that
\* client's own earlier load (the file is as it started when neither wrote).
C10_LastWriterWins ==
    AllDone =>
        IF last_writer = 0 THEN file = before
        ELSE file = WrittenBy(last_writer)

\* Both clients wrote, and the record the first writer saved is not in the
\* file: the two changes were not merged.
C10_Witness ==
    /\ AllDone
    /\ \A i \in Clients : client[i].wrote /\ client[i].op.op = "save_preset"
    /\ \E i \in Clients :
          /\ last_writer # i
          /\ ~Stored(file, client[i].op.c, client[i].op.b)
          /\ Stored(file, client[last_writer].op.c, client[last_writer].op.b)

(* ======================= spring_tool.py: the window ==================== *)
\* Largest number of rig controllers in the scene (the longest chain).
MaxChain == 2
\* Longest list of animation layers left behind by bakes that did not end.
MaxLayers == 2
\* The rig controllers, named so that sorted() is the numeric order.
Ctls == 1 .. MaxChain

TOOLNAME == "Spring_Tool"
AIM_GRP_NAME == "SPTL_aim_loc_GRP"
\* Widget values are counted in hundredths (the spin boxes' step is 0.01).
DEFAULT_SPRING_VALUE == 45
DEFAULT_DECAY_VALUE == 120
DEFAULT_RIGIDITY_VALUE == 700

\* One entry of the trace: what was done, to which controller (0 = none),
\* with the setup nodes in the scene and self.rig_ctl_list at that moment.
Ev(s, ev, ctl) ==
    [s EXCEPT !.trace = Append(@, [ev |-> ev, ctl |-> ctl, scene |-> s.maya.scene,
                                   chain |-> s.w.rig_ctl_list.v])]
\* A handler starts: the state it works on, with the trace of its own run.
\* aim_loc_t is where the aim locator stands; the user may have moved it
\* before the handler runs.
StartAt(name, aim_loc_t) ==
    Ev([w |-> window, maya |-> maya, trace |-> <<>>, exc |-> "",
        aim_loc_t |-> aim_loc_t], name, 0)
Start(name) == StartAt(name, PyList(0, 0, 0))
Raise(s, e) == [s EXCEPT !.exc = e]
\* The next statement runs only when no exception is on its way up.
Then(s, F(_)) == IF s.exc # "" THEN s ELSE F(s)
warning(s) == Ev(s, "warning", 0)
objExists(s, node) == node \in s.maya.scene

RECURSIVE sorted(_)
sorted(l) ==
    IF l = <<>> THEN <<>>
    ELSE LET m == CHOOSE i \in 1 .. Len(l) : \A j \in 1 .. Len(l) : l[i] <= l[j]
         IN <<l[m]>> \o sorted(SubSeq(l, 1, m - 1) \o SubSeq(l, m + 1, Len(l)))

(* --------------------------- disable_viewport -------------------------- *)
\* "except Exception: mc.warning(Exception)": the error ends here.
except_Exception(s) ==
    IF s.exc # "" THEN Ev([s EXCEPT !.exc = ""], "except", 0) ELSE s

\* The viewport turned back on only when func did not fail.
manage_on_return(s) ==
    IF \E i \in 1 .. Len(s.trace) : s.trace[i].ev = "except" THEN s
    ELSE Ev([s EXCEPT !.maya.viewport = TRUE], "viewport_on", 0)
\* "finally: paneLayout -e -manage true $gMainPane"
finally_manage(s) ==
    Ev([s EXCEPT !.maya.viewport = TRUE], "viewport_on", 0)

disable_viewport(func(_), s) ==
    LET s1 == Ev([s EXCEPT !.maya.viewport = FALSE], "viewport_off", 0)
    IN finally_manage(except_Exception(func(s1)))

(* ------------------------------ the scene ------------------------------ *)
clean_scene(s) ==
    IF s.maya.scene = {} THEN s
    ELSE [Ev(s, "delete", 0) EXCEPT !.maya.scene = {}]

create_locators(s, selected_rig_ctl_list) ==
    LET s1 == [s EXCEPT !.w.rig_ctl_list =
                            [set |-> TRUE, v |-> sorted(selected_rig_ctl_list)],
                        !.maya.scene = @ \cup {AIM_GRP_NAME}]
    IN IF selected_rig_ctl_list = <<>> THEN Raise(s1, "IndexError")
       ELSE [Ev(s, "create_locators", s1.w.rig_ctl_list.v[1])
                EXCEPT !.w.rig_ctl_list = s1.w.rig_ctl_list,
                       !.maya.scene = s1.maya.scene,
                       !.w.aim_loc = "SPTL_Aim_loc",
                       !.aim_loc_t = PyList(0, 0, 0)]

\* The aim locator self.aim_loc names is in the scene.
AimLocExists(s) == s.w.aim_loc # "None" /\ objExists(s, AIM_GRP_NAME)

align_locator(s) ==
    IF s.w.aim_loc = "None" \/ s.w.axes = None THEN Raise(s, "TypeError")
    ELSE IF ~AimLocExists(s) THEN Raise(s, "RuntimeError")
    ELSE [Ev(s, "align_locator", 0) EXCEPT !.aim_loc_t = s.w.axes]

\* self.axes becomes the translation of the aim locator.
get_direction(s) == [s EXCEPT !.w.axes = s.aim_loc_t]

bake_rot_trans_with_mel(s) ==
    disable_viewport(LAMBDA x : Ev(x, "bake_ctl_locator", 0), s)

\* setup_live_preview without its decorator.
setup_live_preview_func(s, rig_ctl_list, mode) ==
    IF objExists(s, TOOLNAME) THEN warning(s)
    ELSE LET s1 == [Ev(s, "setup_live_preview",
                       IF rig_ctl_list = <<>> THEN 0 ELSE rig_ctl_list[1])
                       EXCEPT !.maya.scene = @ \cup {TOOLNAME}]
         IN IF rig_ctl_list = <<>> THEN Raise(s1, "IndexError")
            ELSE IF mode = TRANSLATION
            THEN IF s1.w.rig_ctl_list.v = <<>> THEN Raise(s1, "IndexError")
                 ELSE LET s2 == bake_rot_trans_with_mel(s1)
                      IN IF ~AimLocExists(s2) THEN Raise(s2, "TypeError") ELSE s2
            ELSE IF ~AimLocExists(s1) THEN Raise(s1, "TypeError")
                 ELSE get_direction(bake_rot_trans_with_mel(s1))

setup_live_preview(s, rig_ctl_list, mode) ==
    disable_viewport(LAMBDA x : setup_live_preview_func(x, rig_ctl_list, mode), s)

(* -------------------------------- bake --------------------------------- *)
bake_rotation_with_mel(s, current_ctl) ==
    disable_viewport(LAMBDA x : Ev(x, "bake_rotation", current_ctl), s)
bake_translation_wilth_mel(s, current_ctl) ==
    disable_viewport(LAMBDA x : Ev(x, "bake_translation", current_ctl), s)

create_anim_layer(s, current_ctl) ==
    [s EXCEPT !.w.layer_names_list = Append(@, current_ctl)]

bake_ctl(s, current_ctl) ==
    LET s1 == IF s.w.bake_on_layer_checkbox THEN create_anim_layer(s, current_ctl)
              ELSE s
        s2 == IF s1.w.rotation_mode_radio_button
              THEN bake_rotation_with_mel(s1, current_ctl)
              ELSE bake_translation_wilth_mel(s1, current_ctl)
    IN clean_scene(s2)

Mode(rotation_mode) == IF rotation_mode THEN ROTATION ELSE TRANSLATION

\* The loop of launch_bake from index i (1-based) on.
RECURSIVE BakeChain(_, _, _, _)
BakeChain(s, selected_rig_ctl, i, rotation_mode) ==
    IF i > Len(selected_rig_ctl) \/ s.exc # "" THEN s
    ELSE IF i = 1
    THEN BakeChain(bake_ctl(s, selected_rig_ctl[1]), selected_rig_ctl, 2,
                   rotation_mode)
    ELSE LET s1 == create_locators(s, <<selected_rig_ctl[i]>>)
             s2 == Then(s1, align_locator)
             s3 == Then(s2, LAMBDA x :
                      setup_live_preview(x, <<selected_rig_ctl[i]>>,
                                         Mode(rotation_mode)))
             s4 == Then(s3, LAMBDA x : bake_ctl(x, selected_rig_ctl[i]))
         IN BakeChain(s4, selected_rig_ctl, i + 1, rotation_mode)

NoPreview(s) == ~objExists(s, TOOLNAME)

\* launch_bake without its decorator.
launch_bake_func(s) ==
    IF NoPreview(s) THEN warning(s)
    ELSE IF ~s.w.rig_ctl_list.set THEN Raise(s, "AttributeError")
    ELSE LET selected_rig_ctl == s.w.rig_ctl_list.v
             s1 == BakeChain(s, selected_rig_ctl, 1, s.w.rotation_mode_radio_button)
             s2 == Then(s1, LAMBDA x :
                      IF x.w.merge_animation_layer_checkbox /\ selected_rig_ctl = <<>>
                      THEN Raise(x, "IndexError") ELSE x)
         IN Then(s2, LAMBDA x :
                Ev([x EXCEPT !.w.layer_names_list = <<>>], "completed", 0))

launch_bake(s) == disable_viewport(launch_bake_func, s)

(* ------------------------------ handlers ------------------------------- *)
handle_locators_btn_clicked(s, selection) ==
    LET s1 == [s EXCEPT !.w.rig_ctl_list = [set |-> TRUE, v |-> selection]]
    IN IF selection = <<>> THEN warning(s1)
       ELSE IF objExists(s1, AIM_GRP_NAME) THEN warning(s1)
       ELSE create_locators(s1, selection)

\* "if not mc.objExists(AIM_GRP_NAME): warning; return" left out.
NoLocatorIgnored(s) == FALSE
NoLocator(s) == ~objExists(s, AIM_GRP_NAME)

handle_previz_btn_clicked(s) ==
    IF NoLocator(s) THEN warning(s)
    ELSE IF ~s.w.rig_ctl_list.set THEN Raise(s, "AttributeError")
    ELSE setup_live_preview(s, s.w.rig_ctl_list.v,
                            Mode(s.w.rotation_mode_radio_button))

clear_all(s) ==
    clean_scene([s EXCEPT !.w.rig_ctl_list = [set |-> TRUE, v |-> <<>>],
                          !.w.layer_names_list = <<>>,
                          !.w.aim_loc = "None",
                          !.w.axes = None,
                          !.w.spring_value_spinbox = DEFAULT_SPRING_VALUE,
                          !.w.decay_value_spinbox = DEFAULT_DECAY_VALUE])

\* QDoubleSpinBox.setValue: the value is kept inside the range of the box.
setValue(lo, hi, x) == IF x < lo THEN lo ELSE IF x > hi THEN hi ELSE x

move_to_pref_position(s, position) ==
    IF s.w.aim_loc = "None" THEN Raise(s, "TypeError")
    ELSE IF ~objExists(s, AIM_GRP_NAME) THEN s
    ELSE IF position = None THEN Raise(s, "TypeError")
    ELSE [s EXCEPT !.aim_loc_t = position]

\* set_values_from_preset with the item preset_text of the list selected
\* (NoneName: no item is selected).
set_values_from_preset(s, path, f, character_name, preset_text) ==
    IF preset_text = NoneName THEN Raise(s, "IndexError")
    ELSE LET preset_values == get_preset(path, f, character_name, preset_text)
         IN IF preset_values.none THEN Raise(s, "AttributeError")
            ELSE LET d == preset_values.d
                     spring_mode == IF "spring_mode" \in DOMAIN d
                                    THEN d["spring_mode"] ELSE ROTATION
                     spring_value == IF "spring_value" \in DOMAIN d
                                     THEN d["spring_value"].v[1]
                                     ELSE DEFAULT_SPRING_VALUE
                     spring_rigidity == IF "spring_rigidity" \in DOMAIN d
                                        THEN d["spring_rigidity"].v[1]
                                        ELSE DEFAULT_RIGIDITY_VALUE
                     decay == IF "decay" \in DOMAIN d THEN d["decay"].v[1]
                              ELSE DEFAULT_DECAY_VALUE
                     s1 == [s EXCEPT
                              !.w.rotation_mode_radio_button =
                                  (spring_mode = ROTATION \/ spring_mode = None),
                              !.w.spring_value_spinbox = setValue(0, 100, spring_value),
                              !.w.rigidity_value_spinbox =
                                  setValue(0, 1000, spring_rigidity),
                              !.w.decay_value_spinbox = setValue(0, 1000, decay)]
                 IN move_to_pref_position(Ev(s1, "set_values_from_preset", 0),
                                          DictGet(d, "position"))

launch_all(s, selection, path, f, character_name, preset_text) ==
    LET s1 == [s EXCEPT !.w.rig_ctl_list = [set |-> TRUE, v |-> selection]]
    IN IF selection = <<>> THEN s1
       ELSE LET s2 == create_locators(s1, selection)
                s3 == Then(s2, LAMBDA x :
                         set_values_from_preset(x, path, f, character_name,
                                                preset_text))
                s4 == Then(s3, LAMBDA x :
                         setup_live_preview(x, x.w.rig_ctl_list.v,
                                            Mode(x.w.rotation_mode_radio_button)))
            IN Then(s4, launch_bake)

(* ---------------------------- construction ----------------------------- *)
\* What get_presets_file_path returns, the file it leaves, what it raised,
\* and the answer to the creation dialog ("" when it was not shown).
PathResult(path, f, raised, dialog) ==
    [path |-> path, file |-> f, raised |-> raised, dialog |-> dialog]

\* create_preset_file writing the file whatever the answer is.
create_preset_file_unasked(f, answer) ==
    PathResult(IF answer THEN PresetsPath ELSE NoPath, FileOf(EmptyDict), "",
               IF answer THEN "Ok" ELSE "Cancel")
\* create_preset_file(path, filename) in an existing directory; answer is
\* what show_warning_message returns.
create_preset_file(f, answer) ==
    IF ~answer THEN PathResult(NoPath, f, "", "Cancel")
    ELSE PathResult(PresetsPath, FileOf(EmptyDict), "", "Ok")

\* isdir: presets_directory_path is given and is a directory.
get_presets_file_path(isdir, f, is_admin, answer) ==
    IF ~isdir THEN PathResult(NoPath, f, "", "")
    ELSE IF f.exists THEN PathResult(PresetsPath, f, "", "")
    ELSE IF is_admin THEN PathResult(NoPath, f, "FileNotFoundError", "")
    ELSE create_preset_file(f, answer)

\* The fields SpringToolWindow.__init__ and ui_main leave, the radio button
\* and the check boxes as load_preferences_states sets them.
ConstructedWindow(rotation_mode, bake_on_layer, merge_layers) ==
    [open |-> TRUE, rig_ctl_list |-> [set |-> FALSE, v |-> <<>>],
     aim_loc |-> "None", axes |-> PyList(0, 0, 0), layer_names_list |-> <<>>,
     spring_value_spinbox |-> DEFAULT_SPRING_VALUE,
     rigidity_value_spinbox |-> DEFAULT_RIGIDITY_VALUE,
     decay_value_spinbox |-> DEFAULT_DECAY_VALUE,
     rotation_mode_radio_button |-> rotation_mode,
     bake_on_layer_checkbox |-> bake_on_layer,
     merge_animation_layer_checkbox |-> merge_layers]

\* The end of a window handler.
Handled(op, s) ==
    /\ Len(s.w.layer_names_list) <= MaxLayers
    /\ window' = s.w
    /\ maya' = s.maya
    /\ trace' = s.trace
    /\ call' = op
    /\ ret' = [raised |-> s.exc, value |-> "None", wrote |-> FALSE]
    /\ before' = file
    /\ UNCHANGED <<presets_file_path, file, client, last_writer, admin>>

WinCall(op) == Call(op, "", "", NoArgs, FALSE, "")

\* window = SpringToolWindow(presets_dir_path=..., ...)
SpringToolWindow(isdir, answer, rotation_mode, bake_on_layer, merge_layers) ==
    LET r == get_presets_file_path(isdir, file, FALSE, answer)
        s0 == Start("SpringToolWindow")
        s1 == IF r.dialog = "" THEN s0 ELSE Ev(s0, r.dialog, 0)
        s2 == IF r.file # file THEN Ev(s1, "create_preset_file", 0) ELSE s1
        s3 == clean_scene([s2 EXCEPT !.w = ConstructedWindow(rotation_mode,
                                                bake_on_layer, merge_layers)])
    IN /\ ~window.open
       /\ ~admin.open
       /\ window' = s3.w
       /\ maya' = s3.maya
       /\ trace' = s3.trace
       /\ presets_file_path' = r.path
       /\ file' = r.file
       /\ before' = file
       /\ call' = Call("SpringToolWindow", "", "", NoArgs, answer, "")
       /\ ret' = [raised |-> "", value |-> "None", wrote |-> r.file # file]
       /\ UNCHANGED <<client, last_writer, admin>>

\* What the user has selected in the scene: controllers in selection order.
Selections ==
    {l \in UNION {[1 .. n -> Ctls] : n \in 0 .. MaxChain} :
        \A i, j \in 1 .. Len(l) : i # j => l[i] # l[j]}

HandleLocatorsBtnClicked(selection) ==
    /\ window.open
    /\ Handled(WinCall("handle_locators_btn_clicked"),
               handle_locators_btn_clicked(Start("handle_locators_btn_clicked"),
                                           selection))
\* The user has left the aim locator at aim_loc_t (step 2 of "How to use").
HandlePrevizBtnClicked(aim_loc_t) ==
    /\ window.open
    /\ AIM_GRP_NAME \notin maya.scene => aim_loc_t = PyList(0, 0, 0)
    /\ Handled(WinCall("handle_previz_btn_clicked"),
               handle_previz_btn_clicked(
                   StartAt("handle_previz_btn_clicked", aim_loc_t)))
LaunchBake ==
    /\ window.open
    /\ Handled(WinCall("launch_bake"), launch_bake(Start("launch_bake")))
ClearAll ==
    /\ window.open
    /\ Handled(WinCall("clear_all"), clear_all(Start("clear_all")))

\* The presets the list of the window shows: the body parts of a character.
ListItems(character_name) ==
    LET l == get_available_body_parts(presets_file_path, file, character_name)
    IN IF l.none \/ l.items = {} THEN {NoneName} ELSE l.items

\* 'Do Magic!' on the preset list, with preset_text the selected item.
LaunchAll(selection, character_name, preset_text) ==
    /\ window.open
    /\ presets_file_path # NoPath
    /\ preset_text \in ListItems(character_name)
    /\ Handled(Call("launch_all", character_name, preset_text, NoArgs,
                    selection # <<>>, ""),
               launch_all(Start("launch_all"), selection, presets_file_path, file,
                          character_name, preset_text))

\* The user types a value into the rigidity spin box.
rigidity_spinbox_value_changed(value) ==
    /\ window.open
    /\ window.rigidity_value_spinbox # setValue(0, 1000, value)
    /\ Handled(WinCall("rigidity_spinbox_value_changed"),
               [Start("rigidity_spinbox_value_changed")
                   EXCEPT !.w.rigidity_value_spinbox = setValue(0, 1000, value)])

\* The user clicks the other radio button or a check box.
save_preferences_states(widget) ==
    /\ window.open
    /\ window' =
         CASE widget = "rotation_mode_radio_button" ->
                [window EXCEPT !.rotation_mode_radio_button = ~@]
           [] widget = "bake_on_layer_checkbox" ->
                [window EXCEPT !.bake_on_layer_checkbox = ~@]
           [] widget = "merge_animation_layer_checkbox" ->
                [window EXCEPT !.merge_animation_layer_checkbox = ~@]
    /\ trace' = <<>>
    /\ call' = WinCall("save_preferences_states")
    /\ ret' = [raised |-> "", value |-> "None", wrote |-> FALSE]
    /\ before' = file
    /\ UNCHANGED <<presets_file_path, file, client, last_writer, admin, maya>>

\* The preset file the studio shares: one rotation preset saved with every
\* value and one translation preset.
SharedFile ==
    save_preset(PresetsPath,
                save_preset(PresetsPath, NoFile, "bob", "arm",
                            MkArgs(ROTATION, Float(0), Float(1), Float(2),
                                   PyList(0, 0, 0)), FALSE).file,
                "bob", "leg",
                MkArgs(TRANSLATION, Float(5), None, None, PyTuple(4, 5, 6)),
                FALSE).file

WindowInit ==
    /\ presets_file_path = NoPath
    /\ file \in {NoFile, SharedFile}
    /\ before = file
    /\ call = NoCall
    /\ ret = [raised |-> "", value |-> "None", wrote |-> FALSE]
    /\ client = [i \in Clients |-> Idle]
    /\ last_writer = 0
    /\ window = NoWindow
    /\ maya \in {[EmptyScene EXCEPT !.scene = n] : n \in SUBSET {AIM_GRP_NAME, TOOLNAME}}
    /\ trace = <<>>
    /\ admin = NoAdmin

\* Where the user may leave the aim locator.
LocatorPositions == {PyList(0, 0, 0), PyList(0, 2, 0)}

\* The main window launched without presets: the four buttons and the
\* radio button.
NextWindow ==
    \/ \E rotation_mode, bake_on_layer, merge_layers \in BOOLEAN :
          SpringToolWindow(FALSE, FALSE, rotation_mode, bake_on_layer, merge_layers)
    \/ \E selection \in Selections : HandleLocatorsBtnClicked(selection)
    \/ \E aim_loc_t \in LocatorPositions : HandlePrevizBtnClicked(aim_loc_t)
    \/ LaunchBake
    \/ ClearAll
    \/ save_preferences_states("rotation_mode_radio_button")

SpecWindow == WindowInit /\ [][NextWindow]_vars

\* The window launched with the shared preset file: 'Do Magic!', the
\* rigidity spin box, the check boxes and Remove Setup.
NextMagic ==
    \/ \E rotation_mode, bake_on_layer, merge_layers \in BOOLEAN :
          SpringToolWindow(TRUE, TRUE, rotation_mode, bake_on_layer, merge_layers)
    \/ \E selection \in Selections, character_name \in {"bob"},
          preset_text \in BodyParts \cup {NoneName} :
             LaunchAll(selection, character_name, preset_text)
    \/ \E value \in {500} : rigidity_spinbox_value_changed(value)
    \/ \E widget \in {"bake_on_layer_checkbox", "merge_animation_layer_checkbox"} :
          save_preferences_states(widget)
    \/ ClearAll

SpecMagic == WindowInit /\ [][NextMagic]_vars

(* ------------------ helpers of the claims on the window ---------------- *)
IsBake(e) == e.ev \in {"bake_rotation", "bake_translation"}
\* The controllers baked by the last handler, in the order of their bakes.
BakedCtls ==
    LET bakes == SelectSeq(trace, IsBake)
    IN [i \in 1 .. Len(bakes) |-> bakes[i].ctl]
\* The steps of the workflow the last handler took, in order.
IsStep(e) ==
    e.ev \in {"create_locators", "set_values_from_preset", "setup_live_preview",
              "bake_rotation", "bake_translation"}
Steps ==
    LET steps == SelectSeq(trace, IsStep)
    IN [i \in 1 .. Len(steps) |-> steps[i].ev]
Traced(ev) == \E i \in 1 .. Len(trace) : trace[i].ev = ev
IsWarning(e) == e.ev = "warning"
\* The last handler issued one warning and did nothing else: no node was
\* created or deleted, nothing was baked, nothing failed.
OnlyWarned ==
    /\ Len(trace) >= 1
    /\ maya.scene = trace[1].scene
    /\ Len(SelectSeq(trace, IsWarning)) = 1
    /\ \A i \in 2 .. Len(trace) :
          trace[i].ev \in {"warning", "viewport_off", "viewport_on"}
    /\ ret.raised = ""

(* -------------------------------- C15 --------------------------------- *)
\* C15: a launch_bake that starts with a live-preview setup in the scene and
\* a chain of n >= 1 controllers in rig_ctl_list bakes every controller of
\* the chain exactly once, in the order of the chain, in either spring mode
\* and whatever the layer check boxes are.
C15_BakesWholeChain ==
    (call.op = "launch_bake" /\ TOOLNAME \in trace[1].scene
        /\ trace[1].chain # <<>>) =>
        BakedCtls = trace[1].chain

(* -------------------------------- C16 --------------------------------- *)
\* C16: 'Do Magic!' on a selected preset with at least one controller
\* selected creates the locator, applies the preset's values, sets up the
\* live preview and bakes, in this order, and ends with every controller of
\* the chain baked; with nothing selected it creates, deletes and bakes
\* nothing.
C16_DoMagic ==
    (call.op = "launch_all" /\ call.b # NoneName) =>
        IF call.flag
        THEN /\ ret.raised = ""
             /\ Len(Steps) >= 4
             /\ SubSeq(Steps, 1, 3) =
                   <<"create_locators", "set_values_from_preset",
                     "setup_live_preview">>
             /\ \E i \in 1 .. Len(trace) :
                   /\ trace[i].ev = "set_values_from_preset"
                   /\ BakedCtls = trace[i].chain
        ELSE /\ Len(trace) = 1
             /\ maya.scene = trace[1].scene
             /\ ret.raised = ""

(* -------------------------------- C17 --------------------------------- *)
\* C17: whatever buttons of the main window are pressed, a live-preview
\* setup is only created while the aim locator group is in the scene and a
\* controller is only baked while a live-preview setup is in the scene; a
\* press out of order (Create Locator with nothing selected or with the
\* locator already there, Live preview without the locator, Bake without a
\* live preview) issues a warning and creates, deletes and bakes nothing.
C17_WorkflowOrder ==
    /\ \A i \in 1 .. Len(trace) :
          /\ trace[i].ev = "setup_live_preview" => AIM_GRP_NAME \in trace[i].scene
          /\ IsBake(trace[i]) => TOOLNAME \in trace[i].scene
    /\ (call.op = "handle_locators_btn_clicked"
          /\ (window.rig_ctl_list.v = <<>> \/ AIM_GRP_NAME \in trace[1].scene)) =>
          OnlyWarned
    /\ (call.op = "handle_previz_btn_clicked"
          /\ AIM_GRP_NAME \notin trace[1].scene) => OnlyWarned
    /\ (call.op = "launch_bake" /\ TOOLNAME \notin trace[1].scene) => OnlyWarned

\* Bake pressed with the locator created but no live preview set up.
C17_Witness ==
    /\ call.op = "launch_bake"
    /\ trace[1].scene = {AIM_GRP_NAME}
    /\ trace[1].chain # <<>>
    /\ OnlyWarned
    /\ BakedCtls = <<>>

(* -------------------------------- C18 --------------------------------- *)
\* C18: after every handler the viewport is on, and within a handler the
\* last thing done to the viewport is turning it on, whether the decorated
\* functions returned normally, returned early with a warning or failed.
C18_ViewportBackOn ==
    /\ maya.viewport
    /\ \A i \in 1 .. Len(trace) :
          trace[i].ev = "viewport_off" =>
              \E j \in (i + 1) .. Len(trace) :
                  /\ trace[j].ev = "viewport_on"
                  /\ \A k \in (j + 1) .. Len(trace) : trace[k].ev # "viewport_off"
                        \/ \E m \in (k + 1) .. Len(trace) : trace[m].ev = "viewport_on"

\* A decorated function failed with the viewport off, and the viewport is on.
C18_Witness ==
    /\ Traced("except")
    /\ \E i \in 1 .. Len(trace) :
          /\ trace[i].ev = "except"
          /\ \E j \in 1 .. (i - 1) : trace[j].ev = "viewport_off"
    /\ trace[Len(trace)].ev = "viewport_on"
    /\ maya.viewport

(* -------------------------------- C19 --------------------------------- *)
\* C19: when a function wrapped by disable_viewport fails, the handler that
\* called it ends with that error raised.
C19_ErrorRaised ==
    Traced("except") => ret.raised # ""

(* -------------------------------- C20 --------------------------------- *)
\* C20: after clear_all the fields of the window are those of a window just
\* constructed: empty rig_ctl_list and layer_names_list, no aim_loc, axes
\* [0, 0, 0], and the three spin boxes at their default values.
C20_ResetToDefault ==
    call.op = "clear_all" =>
        /\ window.rig_ctl_list.v = <<>>
        /\ window.layer_names_list = <<>>
        /\ window.aim_loc = "None"
        /\ window.axes = PyList(0, 0, 0)
        /\ window.spring_value_spinbox = DEFAULT_SPRING_VALUE
        /\ window.rigidity_value_spinbox = DEFAULT_RIGIDITY_VALUE
        /\ window.decay_value_spinbox = DEFAULT_DECAY_VALUE
        /\ window = ConstructedWindow(window.rotation_mode_radio_button,
                                      window.bake_on_layer_checkbox,
                                      window.merge_animation_layer_checkbox)

(* -------------------------------- C12 --------------------------------- *)
\* The window launched with a presets directory that may or may not hold
\* the preset file, and the Confirm button of its Save Preset popup.
OpenInit ==
    /\ presets_file_path = NoPath
    /\ file \in {NoFile, FileOf(EmptyDict)}
    /\ before = file
    /\ call = NoCall
    /\ ret = [raised |-> "", value |-> "None", wrote |-> FALSE]
    /\ client = [i \in Clients |-> Idle]
    /\ last_writer = 0
    /\ window = NoWindow
    /\ maya = EmptyScene
    /\ trace = <<>>
    /\ admin = NoAdmin

NextOpen ==
    \/ \E isdir, answer, rotation_mode \in BOOLEAN :
          SpringToolWindow(isdir, answer, rotation_mode, FALSE, FALSE)
    \/ \E c \in Chars \cup {EMPTY_LINE_TEXT}, b \in BodyParts, a \in PopupArgs,
          edit_mode \in BOOLEAN :
            SavePresetPressed(c, b, a, edit_mode)

SpecOpen == OpenInit /\ [][NextOpen]_vars

FileCreated == file.exists /\ ~before.exists

\* C12 as stated: a missing preset file is created on the first save, and
\* only after the user confirmed the creation dialog; when the user declines
\* no file is created.
C12_CreatedOnFirstSave ==
    /\ FileCreated => (call.op = "save_preset_pressed" /\ Traced("Ok"))
    /\ Traced("Cancel") => ~FileCreated

\* C12 amended: a missing preset file is created when the window is
\* constructed, not on a save: the file comes into existence only in the
\* construction, after the user confirmed the dialog, and holds the empty
\* document; when the user declines no file is created and the window has no
\* preset path; a window that has a preset path has its file, so its saves
\* never meet a missing file. save_preset itself asks nothing: called with a
\* path whose file is missing it creates the file.
C12_CreatedOnConstruction ==
    /\ FileCreated =>
          /\ call.op = "SpringToolWindow"
          /\ Traced("Ok")
          /\ file = FileOf(EmptyDict)
          /\ presets_file_path = PresetsPath
    /\ (call.op = "SpringToolWindow" /\ Traced("Cancel")) =>
          /\ ~file.exists
          /\ presets_file_path = NoPath
    /\ (window.open /\ presets_file_path # NoPath) => file.exists
    /\ call.op = "save_preset_pressed" => before.exists
    /\ \A c \in Chars, b \in BodyParts, a \in ArgProfiles :
          save_preset(PresetsPath, NoFile, c, b, a, FALSE).file.exists

\* The user confirmed the dialog and the window was constructed on the new
\* file.
C12_Witness ==
    /\ call.op = "SpringToolWindow"
    /\ ~before.exists
    /\ Traced("Ok")
    /\ Traced("create_preset_file")
    /\ file = FileOf(EmptyDict)
    /\ window.open

(* ===================== presets_admin.py: the admin window ============== *)
\* "if not authorized_access:" never taken.
AccessDeniedNever(authorized_access) == FALSE
AccessDenied(authorized_access) == ~authorized_access

\* window = presets_admin.SpringToolPresetAdmin(presets_dir_path=...,
\* authorized_access=...)
SpringToolPresetAdmin(isdir, authorized_access) ==
    LET s0 == Start("SpringToolPresetAdmin")
        r == get_presets_file_path(isdir, file, TRUE, FALSE)
        s1 == IF AccessDenied(authorized_access)
              THEN Raise(Ev(s0, "show_error_message", 0), "Access Denied")
              ELSE IF r.raised # ""
              THEN Raise(Ev(s0, "get_presets_file_path", 0), r.raised)
              ELSE IF r.path = NoPath
              THEN Raise(Ev(Ev(s0, "get_presets_file_path", 0), "load_json_data", 0),
                         "JSONDecodeError")
              ELSE Ev(Ev(s0, "get_presets_file_path", 0), "load_json_data", 0)
        path_set == ~AccessDenied(authorized_access) /\ r.raised = ""
    IN /\ ~admin.open
       /\ ~window.open
       /\ admin' = [open |-> s1.exc = "", authorized_access |-> authorized_access]
       /\ presets_file_path' = IF path_set THEN r.path ELSE presets_file_path
       /\ trace' = s1.trace
       /\ call' = Call("SpringToolPresetAdmin", "", "", NoArgs, authorized_access, "")
       /\ ret' = [raised |-> s1.exc, value |-> "None", wrote |-> FALSE]
       /\ before' = file
       /\ UNCHANGED <<file, client, last_writer, window, maya>>

\* The Remove button with the dialog confirmed, on the tree item b of c
\* (NoneName: the item is the character c itself).
remove_selected_preset(c, b) ==
    /\ admin.open
    /\ RemovePreset(c, b)

\* The Edit Preset Name button.
edit_name_clicked(parent_text, item_text, ok, text) ==
    /\ admin.open
    /\ RenamePreset(parent_text, item_text, ok, text)

\* The Edit Preset Values button on a body part: show_saved_preset_popup
\* unpacks the five values of get_all_data into four names.
edit_preset_clicked(c, b) ==
    /\ admin.open
    /\ presets_file_path # NoPath
    /\ trace' = <<>>
    /\ call' = Call("edit_preset_clicked", c, b, NoArgs, FALSE, "")
    /\ ret' = [raised |-> "ValueError", value |-> "None", wrote |-> FALSE]
    /\ before' = file
    /\ UNCHANGED <<presets_file_path, file, client, last_writer, window, maya, admin>>

\* The preset files an administration window may be opened on.
AdminFiles ==
    {NoFile, FileOf(EmptyDict), SharedFile}
    \cup {save_preset(PresetsPath, NoFile, c, b, a, FALSE).file :
            c \in Chars, b \in BodyParts, a \in ArgProfiles}

AdminInit ==
    /\ presets_file_path = NoPath
    /\ file \in AdminFiles
    /\ before = file
    /\ call = NoCall
    /\ ret = [raised |-> "", value |-> "None", wrote |-> FALSE]
    /\ client = [i \in Clients |-> Idle]
    /\ last_writer = 0
    /\ window = NoWindow
    /\ maya = EmptyScene
    /\ trace = <<>>
    /\ admin = NoAdmin

NextAdmin ==
    \/ \E isdir, authorized_access \in BOOLEAN :
          SpringToolPresetAdmin(isdir, authorized_access)
    \/ \E c \in Chars, b \in BodyParts \cup {NoneName} : remove_selected_preset(c, b)
    \/ \E parent_text \in Chars \cup {NoneName} :
          \E item_text \in TreeItems(parent_text), in \in DialogInputs(parent_text) :
            edit_name_clicked(parent_text, item_text, in.ok, in.text)
    \/ \E c \in Chars, b \in BodyParts : edit_preset_clicked(c, b)

SpecAdmin == AdminInit /\ [][NextAdmin]_vars

(* -------------------------------- C14 --------------------------------- *)
AdminOps == {"remove_preset", "rename_preset", "edit_preset_clicked"}

\* C14: a SpringToolPresetAdmin constructed without authorized_access raises
\* 'Access Denied' having only shown the error message: the preset path is
\* not resolved, no file is read or changed and no admin window exists; and
\* an admin operation (remove, rename, edit) only ever runs on a window that
\* was constructed with authorized_access True.
C14_AccessDenied ==
    /\ (call.op = "SpringToolPresetAdmin" /\ ~call.flag) =>
          /\ ret.raised = "Access Denied"
          /\ ~admin.open
          /\ presets_file_path = NoPath
          /\ ~Traced("get_presets_file_path")
          /\ ~Traced("load_json_data")
          /\ file = before
    /\ call.op \in AdminOps => (admin.open /\ admin.authorized_access)
    /\ admin.open => admin.authorized_access

\* The denied construction, with a preset file there to be read.
C14_Witness ==
    /\ call.op = "SpringToolPresetAdmin" /\ ~call.flag
    /\ ret.raised = "Access Denied"
    /\ Traced("show_error_message")
    /\ file.exists /\ DOMAIN file.data # {}

(* ============== spring_tool.py: opening the Save Preset popup ========== *)
\* Scene coordinates are counted in thousandths; round(coord, 2) is the
\* nearest hundredth (the inputs of the model avoid ties).
round2(coord) ==
    IF coord >= 0 THEN ((coord + 5) \div 10) * 10
    ELSE 0 - (((0 - coord) + 5) \div 10) * 10

\* What get_aim_loc_position returns: a function that ends without a return
\* statement returns None.
get_aim_loc_position(s) ==
    IF s.w.aim_loc = "None" THEN PyListOfTuple(0, 0, 0)
    ELSE IF objExists(s, AIM_GRP_NAME)
    THEN PyListOfTuple(round2(s.aim_loc_t.v[1]), round2(s.aim_loc_t.v[2]),
                       round2(s.aim_loc_t.v[3]))
    ELSE None

\* SavePresetPopup.__init__: "self.loc_position = position[0]".
SavePresetPopup(s, position) ==
    IF position = None THEN Raise(s, "TypeError")
    ELSE Ev(s, "SavePresetPopup", 0)

\* show_save_preset_popup: the handler's world at its end and the position
\* it got from get_aim_loc_position (None when it did not ask).
show_save_preset_popup(s, path) ==
    IF path = NoPath THEN [s |-> warning(s), position |-> None]
    ELSE LET position == get_aim_loc_position(s)
         IN [s |-> SavePresetPopup(Ev(s, "get_aim_loc_position", 0), position),
             position |-> position]

\* 'Save Preset' pressed with the aim locator, if any, standing at aim_loc_t;
\* the button exists when the window has a preset path (ui_presets).
ShowSavePresetPopup(aim_loc_t) ==
    LET r == show_save_preset_popup(
                 StartAt("show_save_preset_popup", aim_loc_t), presets_file_path)
    IN /\ window.open
       /\ presets_file_path # NoPath
       /\ AIM_GRP_NAME \notin maya.scene => aim_loc_t = PyList(0, 0, 0)
       /\ window' = r.s.w
       /\ maya' = r.s.maya
       /\ trace' = r.s.trace
       /\ call' = Call("show_save_preset_popup", "", "",
                       MkArgs(None, None, None, None, aim_loc_t), FALSE, "")
       /\ ret' = [raised |-> r.s.exc, value |-> r.position, wrote |-> FALSE]
       /\ before' = file
       /\ UNCHANGED <<presets_file_path, file, client, last_writer, admin>>

\* Where the user may leave the aim locator before saving a preset.
SavedLocatorPositions == {PyList(0, 0, 0), PyList(0, 1234, 0 - 1236)}

\* The window launched with a presets directory: the buttons of the
\* workflow and 'Save Preset'.
NextPopup ==
    \/ \E rotation_mode \in BOOLEAN :
          SpringToolWindow(TRUE, TRUE, rotation_mode, FALSE, FALSE)
    \/ \E selection \in Selections : HandleLocatorsBtnClicked(selection)
    \/ \E aim_loc_t \in LocatorPositions : HandlePrevizBtnClicked(aim_loc_t)
    \/ LaunchBake
    \/ ClearAll
    \/ \E aim_loc_t \in SavedLocatorPositions : ShowSavePresetPopup(aim_loc_t)

SpecPopup == WindowInit /\ [][NextPopup]_vars

(* -------------------------------- C21 --------------------------------- *)
\* C21: 'Save Preset' on a window that has a preset path always opens the
\* popup with a 3-component position: the position of the aim locator
\* (rounded to two decimals) when the locator is in the scene, and
\* [(0, 0, 0)] when no locator was ever created as well as when the locator
\* recorded in aim_loc is no longer in the scene.
C21_PositionAlwaysGiven ==
    (call.op = "show_save_preset_popup" /\ presets_file_path # NoPath) =>
        /\ ret.raised = ""
        /\ Traced("SavePresetPopup")
        /\ ret.value =
              IF window.aim_loc # "None" /\ AIM_GRP_NAME \in trace[1].scene
              THEN PyListOfTuple(round2(call.args.position.v[1]),
                                 round2(call.args.position.v[2]),
                                 round2(call.args.position.v[3]))
              ELSE PyListOfTuple(0, 0, 0)

(* ================= presets.py: the document as a whole ================= *)
(* -------------------------------- C22 --------------------------------- *)
\* C22: in every document reached from a missing or empty file by
\* save_preset, remove_preset and rename_preset, every character holds at
\* least one body part.
C22_NoEmptyCharacter ==
    \A c \in DOMAIN file.data : DOMAIN file.data[c] # {}

\* The only body part of the only character was removed: the document is
\* the empty one again, the character is not left behind without body parts.
C22_Witness ==
    /\ call.op = "remove_preset" /\ call.b # NoneName
    /\ DOMAIN before.data = {call.c}
    /\ DOMAIN before.data[call.c] = {call.b}
    /\ ret.wrote
    /\ file.exists
    /\ DOMAIN file.data = {}

(* -------------------------------- C23 --------------------------------- *)
\* The (character, body_part) records of a file, each with its stored value.
Records(f) ==
    {<<c, b, f.data[c][b]>> : <<c, b>> \in
        UNION {{<<c, b>> : b \in DOMAIN f.data[c]} : c \in DOMAIN f.data}}
\* The records of f other than those of the pairs in targets.
OtherRecords(f, targets) == {r \in Records(f) : <<r[1], r[2]>> \notin targets}

\* C23: a mutation that wrote the file changed its target only. After a
\* save_preset (direct or from the popup) every record other than the saved
\* one is there as before and no other record appeared; after a
\* remove_preset of a body part the removed record is gone and every other
\* record is as before; after a rename_preset the renamed key is gone, the
\* new key holds what it held, and every other key holds what it held.
C23_OnlyTargetChanged ==
    /\ (call.op \in {"save_preset", "save_preset_pressed"} /\ ret.wrote) =>
          /\ file.exists
          /\ Stored(file, call.c, call.b)
          /\ OtherRecords(file, {<<call.c, call.b>>}) =
                OtherRecords(before, {<<call.c, call.b>>})
    /\ (call.op = "remove_preset" /\ call.b # NoneName /\ ret.wrote) =>
          /\ file.exists
          /\ ~Stored(file, call.c, call.b)
          /\ OtherRecords(file, {<<call.c, call.b>>}) =
                OtherRecords(before, {<<call.c, call.b>>})
    /\ (call.op = "rename_preset" /\ ret.wrote) =>
          /\ file.exists
          /\ IF call.c = NoneName
             THEN IF call.b \in DOMAIN before.data
                  THEN /\ DOMAIN file.data =
                            (DOMAIN before.data \ {call.b}) \cup {call.text}
                       /\ call.text \notin DOMAIN before.data
                       /\ file.data[call.text] = before.data[call.b]
                       /\ \A c \in DOMAIN before.data \ {call.b} :
                              file.data[c] = before.data[c]
                  ELSE file.data = before.data
             ELSE IF Stored(before, call.c, call.b)
                  THEN /\ Stored(file, call.c, call.text)
                       /\ ~Stored(before, call.c, call.text)
                       /\ file.data[call.c][call.text] = before.data[call.c][call.b]
                       /\ OtherRecords(file, {<<call.c, call.b>>, <<call.c, call.text>>})
                            = OtherRecords(before, {<<call.c, call.b>>,
                                                    <<call.c, call.text>>})
                       /\ ~Stored(file, call.c, call.b)
                  ELSE file.data = before.data

\* A second body part saved for a character: the character's first body
\* part is still there with the values it had.
C23_Witness ==
    /\ call.op = "save_preset" /\ ret.wrote
    /\ call.c \in DOMAIN before.data
    /\ ~Stored(before, call.c, call.b)
    /\ \E b \in DOMAIN before.data[call.c] :
          /\ b # call.b
          /\ Stored(file, call.c, b)
          /\ file.data[call.c][b] = before.data[call.c][b]
    /\ Cardinality(Records(file)) = Cardinality(Records(before)) + 1

====
